---- MODULE Spec2Model ----
(***************************************************************************)
(* Model of hardware/detailed/tb/tb_driver.cpp: the Verilator test-bench   *)
(* driver.  main() builds a run context, the design (top) and a VCD sink   *)
(* (tfp), then loops: timeInc(5), toggle clk, eval, dump, twice per        *)
(* iteration, until the run context reports gotFinish(); then it closes    *)
(* the sink, deletes top and the context, and returns 0.                   *)
(*                                                                         *)
(* pc holds the source line of the next statement of main().               *)
(* The design is opaque: eval() is a call that either returns (possibly    *)
(* after raising the finish flag, and with any visible signal value) or    *)
(* does not return because the process aborts inside it.                   *)
(* tfp->open() is taken to succeed; contextp->time() is 64 bits wide and   *)
(* cannot wrap within the bounds explored here.                            *)
(***************************************************************************)
EXTENDS Integers, Naturals, Sequences, FiniteSets, TLC

\* Bound on the number of loop iterations explored (the code has no cap).
MaxIter == 3

\* Mutant: the full clock period used where the half-period belongs.
QuantumFullPeriod == 5 + 5

\* contextp->timeInc(5): the half-period, in picoseconds.
Quantum == 5

VARIABLES
    pc,        \* source line of the next statement of main(), "done" or "aborted"
    ctxAlive,  \* contextp points to a live VerilatedContext
    topAlive,  \* top points to a live Vtb_pim_system
    sink,      \* tfp: "null", "created", "attached", "open", "closed"
    time,      \* contextp->time()
    clk,       \* top->clk
    sig,       \* the design's visible signal state besides clk
    finish,    \* contextp->gotFinish()
    trace,     \* samples dumped to the VCD sink, in order
    status,    \* exit status of main(): <<>> until it returns, then <<code>>
    clk0,      \* history: value of top->clk after construction
    iter,      \* history: completed loop iterations
    nAdv,      \* history: number of timeInc calls
    nToggle,   \* history: number of writes to top->clk
    nEval,     \* history: number of eval calls that returned
    nDump,     \* history: number of dump calls
    nOpen,     \* history: number of open calls
    nClose,    \* history: number of close calls
    nDelTop,   \* history: number of delete top statements run
    nDelCtx,   \* history: number of delete contextp statements run
    finishAt,  \* history: index of the eval that raised finish, 0 if none
    timeLog,   \* history: values taken by contextp->time()
    phase      \* history: last loop operation performed

vars == <<pc, ctxAlive, topAlive, sink, time, clk, sig, finish, trace, status,
          clk0, iter, nAdv, nToggle, nEval, nDump, nOpen, nClose, nDelTop,
          nDelCtx, finishAt, timeLog, phase>>

\* Groups of variables a statement leaves alone.
ownerVars == <<ctxAlive, topAlive, nDelTop, nDelCtx>>
sinkVars  == <<sink, nOpen, nClose>>
modelVars == <<sig, finish, nEval, finishAt>>
clockVars == <<clk, clk0, nToggle>>
timeVars  == <<time, nAdv, timeLog>>
traceVars == <<trace, nDump>>

Init ==
    /\ pc = "L9"
    /\ ctxAlive = FALSE
    /\ topAlive = FALSE
    /\ sink = "null"
    /\ time = 0
    /\ clk = FALSE
    /\ sig = FALSE
    /\ finish = FALSE
    /\ trace = <<>>
    /\ status = <<>>
    /\ clk0 = FALSE
    /\ iter = 0
    /\ nAdv = 0
    /\ nToggle = 0
    /\ nEval = 0
    /\ nDump = 0
    /\ nOpen = 0
    /\ nClose = 0
    /\ nDelTop = 0
    /\ nDelCtx = 0
    /\ finishAt = 0
    /\ timeLog = <<0>>
    /\ phase = "none"

----------------------------------------------------------------------------
\* Set-up, lines 9-20.

\* VerilatedContext* contextp = new VerilatedContext;
NewContext ==
    /\ pc = "L9"
    /\ pc' = "L10"
    /\ ctxAlive' = TRUE
    /\ UNCHANGED <<topAlive, nDelTop, nDelCtx, sinkVars, timeVars, clockVars,
                   modelVars, traceVars, status, iter, phase>>

\* contextp->commandArgs(argc, argv);
CommandArgs ==
    /\ pc = "L10"
    /\ ctxAlive
    /\ pc' = "L13"
    /\ UNCHANGED <<ownerVars, sinkVars, timeVars, clockVars, modelVars,
                   traceVars, status, iter, phase>>

\* Vtb_pim_system* top = new Vtb_pim_system{contextp};
\* the reset value of the clk input is whatever the design implies.
NewTop ==
    /\ pc = "L13"
    /\ ctxAlive
    /\ pc' = "L16"
    /\ topAlive' = TRUE
    /\ \E c \in BOOLEAN : clk' = c /\ clk0' = c
    /\ UNCHANGED <<ctxAlive, nDelTop, nDelCtx, sinkVars, timeVars, nToggle,
                   modelVars, traceVars, status, iter, phase>>

\* VerilatedVcdC* tfp = new VerilatedVcdC;
NewTfp ==
    /\ pc = "L16"
    /\ pc' = "L17"
    /\ sink' = "created"
    /\ UNCHANGED <<ownerVars, nOpen, nClose, timeVars, clockVars, modelVars,
                   traceVars, status, iter, phase>>

\* top->trace(tfp, 99);
TraceAttach ==
    /\ pc = "L17"
    /\ topAlive
    /\ sink = "created"
    /\ pc' = "L18"
    /\ sink' = "attached"
    /\ UNCHANGED <<ownerVars, nOpen, nClose, timeVars, clockVars, modelVars,
                   traceVars, status, iter, phase>>

\* Mutant: the open call left out; the sink stays unopened.
OpenMissing ==
    /\ pc = "L18"
    /\ pc' = "L20"
    /\ UNCHANGED <<ownerVars, sinkVars, timeVars, clockVars, modelVars,
                   traceVars, status, iter, phase>>

\* tfp->open("pim_system_tb.vcd");
Open ==
    /\ pc = "L18"
    /\ pc' = "L20"
    /\ sink' = "open"
    /\ nOpen' = nOpen + 1
    /\ UNCHANGED <<ownerVars, nClose, timeVars, clockVars, modelVars,
                   traceVars, status, iter, phase>>

\* std::cout << "Starting Verilator simulation..." << std::endl;
PrintStart ==
    /\ pc = "L20"
    /\ pc' = "L23"
    /\ UNCHANGED <<ownerVars, sinkVars, timeVars, clockVars, modelVars,
                   traceVars, status, iter, phase>>

----------------------------------------------------------------------------
\* The simulation loop, lines 23-39.

\* Mutant: the negation of the loop condition dropped.
LoopCondInverted(f) == f

\* !contextp->gotFinish()
LoopCond(f) == ~f

\* while (!contextp->gotFinish()) { ... }
WhileCheck ==
    /\ pc = "L23"
    /\ IF LoopCond(finish)
         THEN iter < MaxIter /\ pc' = "L26"
         ELSE pc' = "L41"
    /\ UNCHANGED <<ownerVars, sinkVars, timeVars, clockVars, modelVars,
                   traceVars, status, iter, phase>>

\* Mutant: the increment applied twice.
timeIncTwice(t, add) == t + add + add

\* VerilatedContext::timeInc(add)
timeInc(t, add) == t + add

\* contextp->timeInc(5);
TimeInc(from, to) ==
    /\ pc = from
    /\ pc' = to
    /\ time' = timeInc(time, Quantum)
    /\ nAdv' = nAdv + 1
    /\ timeLog' = Append(timeLog, time')
    /\ phase' = "advance"
    /\ UNCHANGED <<ownerVars, sinkVars, clockVars, modelVars, traceVars,
                   status, iter>>

\* Mutant: the clock driven high instead of inverted.
NotStuckHigh(c) == TRUE

\* !top->clk
Not(c) == ~c

\* top->clk = !top->clk;
Toggle(from, to) ==
    /\ pc = from
    /\ pc' = to
    /\ clk' = Not(clk)
    /\ nToggle' = nToggle + 1
    /\ phase' = "toggle"
    /\ UNCHANGED <<ownerVars, sinkVars, timeVars, clk0, modelVars, traceVars,
                   status, iter>>

\* Mutant: the eval call left out after a clock write.
EvalMissing(from, to) ==
    /\ pc = from
    /\ pc' = to
    /\ UNCHANGED <<ownerVars, sinkVars, timeVars, clockVars, modelVars,
                   traceVars, status, iter, phase>>

\* top->eval();  the design settles, may call $finish, or the process
\* aborts inside the call and no later statement of main() runs.
Eval(from, to) ==
    /\ pc = from
    /\ \E out \in {"ok", "finish", "abort"}, s \in BOOLEAN :
         IF out = "abort"
           THEN /\ pc' = "aborted"
                /\ UNCHANGED <<modelVars, phase>>
           ELSE /\ pc' = to
                /\ sig' = s
                /\ finish' = (finish \/ out = "finish")
                /\ nEval' = nEval + 1
                /\ finishAt' = IF ~finish /\ out = "finish"
                                 THEN nEval + 1 ELSE finishAt
                /\ phase' = "settle"
    /\ UNCHANGED <<ownerVars, sinkVars, timeVars, clockVars, traceVars,
                   status, iter>>

\* The sample tfp->dump(t) appends: time stamp and visible signal state.
Sample(t) == [t |-> t, clk |-> clk, sig |-> sig]

\* Mutant: one dump per iteration; only the dump that ends it writes.
DumpOncePerCycle(from, to, done) ==
    /\ pc = from
    /\ pc' = to
    /\ trace' = IF done = 1 THEN Append(trace, Sample(time)) ELSE trace
    /\ nDump' = nDump + done
    /\ iter' = iter + done
    /\ phase' = "sample"
    /\ UNCHANGED <<ownerVars, sinkVars, timeVars, clockVars, modelVars,
                   status>>

\* Mutant: the completion predicate read after every dump, so the loop can
\* be left after the first half-cycle.
DumpThenCheck(from, to, done) ==
    /\ pc = from
    /\ pc' = IF finish THEN "L41" ELSE to
    /\ trace' = Append(trace, Sample(time))
    /\ nDump' = nDump + 1
    /\ iter' = iter + done
    /\ phase' = "sample"
    /\ UNCHANGED <<ownerVars, sinkVars, timeVars, clockVars, modelVars,
                   status>>

\* Mutant: each dump rewrites the sink from its start, keeping one sample.
DumpOverwrite(from, to, done) ==
    /\ pc = from
    /\ pc' = to
    /\ trace' = <<Sample(time)>>
    /\ nDump' = nDump + 1
    /\ iter' = iter + done
    /\ phase' = "sample"
    /\ UNCHANGED <<ownerVars, sinkVars, timeVars, clockVars, modelVars,
                   status>>

\* Mutant: the dump followed by a timeInc(1) of its own.
DumpAdvancesTime(from, to, done) ==
    /\ pc = from
    /\ pc' = to
    /\ trace' = Append(trace, Sample(time))
    /\ nDump' = nDump + 1
    /\ iter' = iter + done
    /\ phase' = "sample"
    /\ time' = time + 1
    /\ UNCHANGED <<ownerVars, sinkVars, nAdv, timeLog, clockVars, modelVars,
                   status>>

\* tfp->dump(contextp->time());  done = 1 for the dump that ends an iteration.
Dump(from, to, done) ==
    /\ pc = from
    /\ pc' = to
    /\ trace' = Append(trace, Sample(time))
    /\ nDump' = nDump + 1
    /\ iter' = iter + done
    /\ phase' = "sample"
    /\ UNCHANGED <<ownerVars, sinkVars, timeVars, clockVars, modelVars,
                   status>>

\* Mutant: the first half-cycle's timeInc left out.
TimeInc1Missing ==
    /\ pc = "L26"
    /\ pc' = "L28"
    /\ phase' = "advance"
    /\ UNCHANGED <<ownerVars, sinkVars, timeVars, clockVars, modelVars,
                   traceVars, status, iter>>

\* Mutant: the second half-cycle's clock write left out.
Toggle2Missing ==
    /\ pc = "L36"
    /\ pc' = "L37"
    /\ phase' = "toggle"
    /\ UNCHANGED <<ownerVars, sinkVars, timeVars, clockVars, modelVars,
                   traceVars, status, iter>>

TimeInc1 == TimeInc("L26", "L28")
Toggle1  == Toggle("L28", "L30")
Eval1    == Eval("L30", "L32")
Dump1    == Dump("L32", "L35", 0)
TimeInc2 == TimeInc("L35", "L36")
Toggle2  == Toggle("L36", "L37")
Eval2    == Eval("L37", "L38")
Dump2    == Dump("L38", "L23", 1)

----------------------------------------------------------------------------
\* Tear-down, lines 41-47.

\* std::cout << "Verilator simulation finished." << std::endl;
PrintFinished ==
    /\ pc = "L41"
    /\ pc' = "L44"
    /\ UNCHANGED <<ownerVars, sinkVars, timeVars, clockVars, modelVars,
                   traceVars, status, iter, phase>>

\* Mutant: the close call left out; the sink is still open at delete top.
CloseMissing ==
    /\ pc = "L44"
    /\ pc' = "L45"
    /\ UNCHANGED <<ownerVars, sinkVars, timeVars, clockVars, modelVars,
                   traceVars, status, iter, phase>>

\* tfp->close();
Close ==
    /\ pc = "L44"
    /\ pc' = "L45"
    /\ sink' = "closed"
    /\ nClose' = nClose + 1
    /\ UNCHANGED <<ownerVars, nOpen, timeVars, clockVars, modelVars,
                   traceVars, status, iter, phase>>

\* delete top;
DeleteTop ==
    /\ pc = "L45"
    /\ pc' = "L46"
    /\ topAlive' = FALSE
    /\ nDelTop' = nDelTop + 1
    /\ UNCHANGED <<ctxAlive, nDelCtx, sinkVars, timeVars, clockVars, modelVars,
                   traceVars, status, iter, phase>>

\* delete contextp;
DeleteContext ==
    /\ pc = "L46"
    /\ pc' = "L47"
    /\ ctxAlive' = FALSE
    /\ nDelCtx' = nDelCtx + 1
    /\ UNCHANGED <<topAlive, nDelTop, sinkVars, timeVars, clockVars, modelVars,
                   traceVars, status, iter, phase>>

\* the value main() returns
ExitCode == 0

\* Mutant: a failure status returned.
Return1 ==
    /\ pc = "L47"
    /\ pc' = "done"
    /\ status' = <<1>>
    /\ UNCHANGED <<ownerVars, sinkVars, timeVars, clockVars, modelVars,
                   traceVars, iter, phase>>

\* return 0;
Return0 ==
    /\ pc = "L47"
    /\ pc' = "done"
    /\ status' = <<ExitCode>>
    /\ UNCHANGED <<ownerVars, sinkVars, timeVars, clockVars, modelVars,
                   traceVars, iter, phase>>

----------------------------------------------------------------------------
Next ==
    \/ NewContext \/ CommandArgs \/ NewTop \/ NewTfp \/ TraceAttach
    \/ Open \/ PrintStart
    \/ WhileCheck
    \/ TimeInc1 \/ Toggle1 \/ Eval1 \/ Dump1
    \/ TimeInc2 \/ Toggle2 \/ Eval2 \/ Dump2
    \/ PrintFinished \/ Close \/ DeleteTop \/ DeleteContext \/ Return0

Spec == Init /\ [][Next]_vars

\* main() is one sequential thread: whenever a statement can run, it runs.
FairSpec == Spec /\ WF_vars(Next)

----------------------------------------------------------------------------
\* Positions of main().
SetupPcs  == {"L9", "L10", "L13", "L16", "L17", "L18", "L20"}
LoopPcs   == {"L23", "L26", "L28", "L30", "L32", "L35", "L36", "L37", "L38"}
ExitPcs   == {"L41", "L44", "L45", "L46", "L47", "done"}
InLoop     == pc \in LoopPcs
LoopExited == pc \in ExitPcs
Terminal   == pc \in {"done", "aborted"}

TypeOK ==
    /\ pc \in SetupPcs \cup LoopPcs \cup ExitPcs \cup {"aborted"}
    /\ ctxAlive \in BOOLEAN /\ topAlive \in BOOLEAN
    /\ sink \in {"null", "created", "attached", "open", "closed"}
    /\ time \in Nat /\ clk \in BOOLEAN /\ sig \in BOOLEAN
    /\ finish \in BOOLEAN
    /\ status \in {<<>>} \cup {<<c>> : c \in 0..255}
    /\ iter \in 0..MaxIter

----------------------------------------------------------------------------
\* Helpers for the properties below.
Odd(n)  == n % 2 = 1
Even(n) == n % 2 = 0
\* The clock level after k toggles from the constructed value.
ClkAfter(k) == IF Even(k) THEN clk0 ELSE ~clk0

----------------------------------------------------------------------------
\* C1: with quantum 5 and time starting at 0, after n timeInc calls the
\* time is exactly n*5 (and the n+1 values it has taken are 0, 5, ..., n*5);
\* every advancement adds exactly 5 and no step decreases the time.
C1_TimeIsNTimesQuantum ==
    /\ [](/\ time = nAdv * 5
          /\ Len(timeLog) = nAdv + 1
          /\ \A i \in 1..Len(timeLog) : timeLog[i] = (i - 1) * 5)
    /\ [][/\ time' >= time
          /\ (nAdv' = nAdv + 1 => time' = time + 5)
          /\ (nAdv' = nAdv => time' = time)]_vars

\* C1 witness: six advancements have been made and the time is 30.
C1_Witness == nAdv = 6 /\ time = 30

\* C2: the driver leaves the loop only at the loop head and only with the
\* completion predicate true; once the predicate is true the driver does
\* get out of the loop; and while the predicate is false a running driver
\* that has entered the loop is still in it.
C2_LoopTerminatesIffFinished ==
    /\ [](LoopExited => finish)
    /\ [][(InLoop /\ pc' \in ExitPcs) => (pc = "L23" /\ finish)]_vars
    /\ (finish ~> ~InLoop)
    /\ []((~finish /\ pc \notin SetupPcs /\ pc # "aborted") => InLoop)

\* C2 witness: the loop has been left after two iterations, predicate true.
C2_Witness == pc = "L41" /\ finish /\ iter = 2

\* C3 (as claimed): in every terminal state, after a normal exit or after
\* an abort inside eval, the sink has been closed, exactly once.
C3_SinkClosedOnEveryExit ==
    Terminal => (sink = "closed" /\ nClose = 1)

\* C4: one sample is recorded per evaluation, two per loop iteration:
\* after k completed iterations the trace holds 2k samples at the loop
\* head and after the loop, 2k or 2k+1 inside iteration k+1; the time
\* stamps are strictly increasing along the trace.
C4_TwoSamplesPerCycle ==
    /\ Len(trace) \in {2 * iter, 2 * iter + 1}
    /\ (pc = "L23" \/ LoopExited) => Len(trace) = 2 * iter
    /\ Len(trace) <= nEval /\ nEval <= Len(trace) + 1
    /\ (pc = "L23" \/ LoopExited) => Len(trace) = nEval
    /\ \A i \in 2..Len(trace) : trace[i].t > trace[i - 1].t

\* C4 witness: at the loop head after two iterations, four samples.
C4_Witness == pc = "L23" /\ iter = 2 /\ Len(trace) = 4

\* C5: the clock is written exactly once per time advancement (at each
\* timeInc the previous advancement's single write has been done, and the
\* level is the constructed one flipped once per advancement), and any two
\* consecutive samples record different clock values.
C5_ClockAlternates ==
    /\ nToggle <= nAdv /\ nAdv <= nToggle + 1
    /\ pc \in {"L26", "L35"} => nToggle = nAdv
    /\ clk = ClkAfter(nToggle)
    /\ \A i \in 2..Len(trace) : trace[i].clk # trace[i - 1].clk

\* C5 witness: three samples recorded, the clock written three times.
C5_Witness == Len(trace) = 3 /\ nToggle = 3 /\ nAdv = 3

\* C6: within each half-cycle the order is advance, toggle, settle,
\* sample: a sample is taken only right after the settle that follows the
\* latest clock write, a settle is invoked only right after a clock write,
\* and a clock write only right after an advancement; every clock write
\* gets exactly one settle before the next one, so two per iteration.
C6_SettleOncePerClockWrite ==
    /\ [](/\ nDump <= nEval /\ nEval <= nToggle
          /\ nToggle <= nAdv /\ nAdv <= nDump + 1
          /\ (pc \in {"L28", "L36"} => phase = "advance")
          /\ (pc \in {"L30", "L37"} => phase = "toggle" /\ nEval = nToggle - 1)
          /\ (pc \in {"L32", "L38"} =>
                phase = "settle" /\ nEval = nToggle /\ nDump = nEval - 1)
          /\ (pc = "L23" \/ LoopExited => nEval = 2 * iter /\ nToggle = nEval))
    /\ [][/\ (nDump' # nDump => phase = "settle" /\ nEval = nToggle)
          /\ (nEval' # nEval => phase = "toggle" /\ nEval' = nEval + 1)
          /\ (nToggle' # nToggle => phase = "advance")
          /\ (nAdv' # nAdv => phase \in {"none", "sample"})]_vars

\* C6 witness: about to take the fourth sample, right after the fourth
\* settle.
C6_Witness == pc = "L38" /\ nEval = 4 /\ nDump = 3 /\ phase = "settle"

\* C7: when the design raises finish during the third iteration (in its
\* fifth or sixth eval) and the process has returned: six advancements,
\* time has taken the values 0, 5, ..., 30, six samples with time stamps
\* 5..30, the sampled clock alternates starting with the complement of the
\* constructed clock value, and the exit status is 0.
C7_ThreeCycleScenario ==
    (pc = "done" /\ finishAt \in {5, 6}) =>
        /\ nAdv = 6
        /\ timeLog = <<0, 5, 10, 15, 20, 25, 30>>
        /\ time = 30
        /\ iter = 3
        /\ Len(trace) = 6
        /\ \A i \in 1..6 : trace[i].t = 5 * i /\ trace[i].clk = ClkAfter(i)
        /\ trace[1].clk = ~clk0
        /\ status = <<0>>

\* C7 witness: finish was raised by the fifth eval and main() has returned.
C7_Witness == pc = "done" /\ finishAt = 5 /\ Len(trace) = 6

\* C8: the loop is left only from the loop head, after both half-cycles:
\* at loop exit the number of samples is even and is twice the number of
\* the iteration in which finish was raised, so a finish raised by the
\* first settle of an iteration is still followed by the second half-cycle.
C8_ExitOnlyAtIterationBoundary ==
    /\ [](LoopExited =>
            /\ Even(Len(trace))
            /\ Len(trace) = 2 * iter
            /\ nEval = Len(trace)
            /\ finishAt \in {2 * iter - 1, 2 * iter})
    /\ [][pc' = "L41" => pc = "L23"]_vars

\* C8 witness: finish was raised by the first settle of the second
\* iteration and the loop was left with four samples.
C8_Witness == pc = "L41" /\ finishAt = 3 /\ Len(trace) = 4

C10_ExitStatusZero ==
    /\ pc = "done" => (finish /\ status = <<0>>)
    /\ status \in {<<>>, <<0>>}
    /\ pc # "done" => status = <<>>

\* C10 witness: main() has returned after two iterations.
C10_Witness == pc = "done" /\ iter = 2 /\ status = <<0>>

\* Positions of the steps the frame conditions name.
AdvancePcs == {"L26", "L35"}
TogglePcs  == {"L28", "L36"}
SettlePcs  == {"L30", "L37"}
SamplePcs  == {"L32", "L38"}
SinkPcs    == {"L16", "L17", "L18", "L44"}

\* C11: the trace is append-only: every step leaves the recorded samples
\* unchanged as a prefix of the trace; only a dump step extends it, by
\* exactly one sample, stamped with the current time and holding the
\* design's currently visible signals (clk and sig).
C11_TraceAppendOnly ==
    [][\/ trace' = trace
       \/ /\ pc \in SamplePcs
          /\ Len(trace') = Len(trace) + 1
          /\ SubSeq(trace', 1, Len(trace)) = trace
          /\ trace'[Len(trace')] = [t |-> time, clk |-> clk, sig |-> sig]
          /\ time' = time /\ clk' = clk /\ sig' = sig]_vars

\* C11 witness: the third sample has just been appended at time 15.
C11_Witness ==
    /\ phase = "sample" /\ Len(trace) = 3
    /\ trace[3] = [t |-> 15, clk |-> clk, sig |-> sig]

\* C12: the time is changed only by the timeInc steps and the clock, once
\* the design is constructed, only by the toggle steps: the settle, sample,
\* termination-check and sink steps leave the time unchanged, and the
\* sample, termination-check and sink steps leave the clock unchanged.
C12_TimeAndClockFrame ==
    [][/\ (time' # time => pc \in AdvancePcs)
       /\ (clk' # clk => pc \in TogglePcs \cup {"L13"})
       /\ (pc \in SettlePcs \cup SamplePcs \cup SinkPcs \cup {"L23"}
             => time' = time)
       /\ (pc \in SamplePcs \cup SinkPcs \cup {"L23"} => clk' = clk)]_vars

\* C12 witness: the sink has been closed after two iterations, with the
\* time and the clock as the loop left them.
C12_Witness == pc = "L45" /\ sink = "closed" /\ time = 20 /\ clk = clk0

\* C13: at every termination check the time is a multiple of 10, the clock
\* has its constructed value, the number of samples is time / 5, and eval
\* has returned as many times as samples were recorded.
C13_LoopHeadInvariant ==
    pc = "L23" =>
        /\ time % 10 = 0
        /\ time = 10 * iter
        /\ clk = clk0
        /\ Len(trace) = time \div 5
        /\ nEval = Len(trace)

\* C13 witness: the termination check after two iterations.
C13_Witness == pc = "L23" /\ time = 20 /\ Len(trace) = 4 /\ nEval = 4

\* C14: the k-th sample carries time stamp 5*k and the constructed clock
\* value when k is even, its complement when k is odd; no sample carries
\* time stamp 0; before the first clock write the design is neither
\* settled nor sampled.
C14_KthSample ==
    /\ \A k \in 1..Len(trace) :
          /\ trace[k].t = 5 * k
          /\ trace[k].clk = (IF k % 2 = 0 THEN clk0 ELSE ~clk0)
          /\ trace[k].t # 0
    /\ nToggle = 0 => (nEval = 0 /\ trace = <<>>)

\* C14 witness: five samples recorded, the fifth at time 25 with the
\* complement of the constructed clock value.
C14_Witness == Len(trace) = 5 /\ trace[5].t = 25 /\ trace[5].clk = ~clk0

\* C15: on the normal exit path the sink is closed, then the design is
\* destroyed, then the run context, each exactly once and only after the
\* loop has been left; inside the loop the sink is open and the design and
\* the context are alive; the design is not evaluated or sampled once it
\* is destroyed.
C15_TeardownOrder ==
    /\ [](/\ nClose <= 1 /\ nDelTop <= nClose /\ nDelCtx <= nDelTop
          /\ (nClose > 0 => LoopExited)
          /\ (InLoop => sink = "open" /\ topAlive /\ ctxAlive)
          /\ (topAlive => ctxAlive /\ nDelTop = 0)
          /\ (nDelTop > 0 => ~topAlive /\ sink = "closed")
          /\ (nDelCtx > 0 => ~ctxAlive)
          /\ (pc = "done" => nClose = 1 /\ nDelTop = 1 /\ nDelCtx = 1))
    /\ [][/\ ((nEval' # nEval \/ trace' # trace) => topAlive /\ topAlive')
          /\ (nDelTop > 0 => nEval' = nEval /\ trace' = trace /\ ~topAlive')
          /\ (nClose' # nClose => pc = "L44")
          /\ (nDelTop' # nDelTop => pc = "L45" /\ nClose = 1 /\ topAlive)
          /\ (nDelCtx' # nDelCtx => pc = "L46" /\ nDelTop = 1 /\ ctxAlive)]_vars

\* C15 witness: main() has returned after two iterations with the sink
\* closed and the design and the context destroyed.
C15_Witness ==
    /\ pc = "done" /\ iter = 2 /\ sink = "closed"
    /\ ~topAlive /\ ~ctxAlive /\ nDelTop = 1 /\ nDelCtx = 1

====
